---- MODULE Spec2Model ----
(***************************************************************************)
(* Model of ScrollService (scroll.go): a builder holding the configuration *)
(* of a scan/scroll search and the scroll id, with the three fetch         *)
(* operations GetFirstPage, GetNextPage and Do.                            *)
(*                                                                         *)
(* Path strings are sequences of one-character strings, so that separators *)
(* can be inspected.  Parameter values are strings.  The collaborators     *)
(* that are not part of scroll.go (Client.NewRequest, the HTTP transport,  *)
(* checkResponse, the JSON decoder) are modelled by the nondeterministic   *)
(* outcome of the exchange: which step fails, or the decoded envelope.     *)
(* The debug flag only gates dumps of the request and the response to the  *)
(* standard output and the log; it and its setter are left out.            *)
(***************************************************************************)
EXTENDS Integers, Sequences, FiniteSets, TLC

VARIABLES indices, types, keepAlive, query, size, pretty, scrollId,
          op, built, sent, decoded, res, err,
          idArg, firstPageOk

fields == <<indices, types, keepAlive, query, size, pretty, scrollId>>
call   == <<op, built, sent, decoded, res, err>>
hist   == <<idArg, firstPageOk>>
vars   == <<indices, types, keepAlive, query, size, pretty, scrollId,
            op, built, sent, decoded, res, err, idArg, firstPageOk>>

(* ------------------------------ bounds -------------------------------- *)
MaxIndices == 2
MaxTypes   == 1
MaxSize    == 1
MaxHits    == 1
MaxTotal   == 1

(* ------------------------------ inputs -------------------------------- *)
\* raw names handed to Index/Indices/Type/Types
IndexNames == { <<"/", "a">> }
TypeNames  == { <<"t">> }
KeepAlives == { "", "1m" }
Queries    == { "nil", "match_all" }
SizeArgs   == (0 - 1)..MaxSize
ScrollIds  == { "", "c1" }

\* a nil pointer / nil slice / nil result is the empty sequence,
\* a non-nil one the one-element sequence of its referent
Nil == <<>>
Ptr(v) == <<v>>

(* ------------------------- response envelopes ------------------------- *)
\* SearchResult as decoded from the body: ScrollId and the Hits container
\* (nil, or TotalHits and the Hits sequence)
HitSeqs == UNION { [1..n -> {"doc"}] : n \in 0..MaxHits }
SearchHitsSet == [TotalHits : 0..MaxTotal, Hits : HitSeqs]
SearchResults == [ScrollId : ScrollIds, Hits : {Nil} \cup {Ptr(h) : h \in SearchHitsSet}]

\* the step of the exchange that fails, "none" when all succeed
Failures == { "NewRequest", "Transport", "Status", "Decode" }
Outcomes == [fail : Failures] \cup [fail : {"none"}, env : SearchResults]

(* ------------------------------ helpers ------------------------------- *)
RECURSIVE TrimLeft(_)
TrimLeft(s) == IF s # <<>> /\ Head(s) = "/" THEN TrimLeft(Tail(s)) ELSE s

RECURSIVE TrimRight(_)
TrimRight(s) ==
    IF s # <<>> /\ s[Len(s)] = "/" THEN TrimRight(SubSeq(s, 1, Len(s) - 1)) ELSE s

\* name normalisation for a path segment: no leading or trailing separator
cleanPathString(s) == TrimRight(TrimLeft(s))

\* strings.Join(parts, ",")
RECURSIVE Join(_)
Join(parts) ==
    IF parts = <<>> THEN <<>>
    ELSE IF Len(parts) = 1 THEN parts[1]
    ELSE parts[1] \o <<",">> \o Join(Tail(parts))

\* fmt.Sprintf("%d", n)
Digits == <<"0", "1", "2", "3", "4", "5", "6", "7", "8", "9">>
RECURSIVE FmtNat(_)
FmtNat(n) == IF n < 10 THEN Digits[n + 1] ELSE FmtNat(n \div 10) \o Digits[(n % 10) + 1]
FmtD(n) == IF n < 0 THEN "-" \o FmtNat(0 - n) ELSE FmtNat(n)

\* fmt.Sprintf("%v", b)
FmtV(b) == IF b THEN "true" ELSE "false"

defaultKeepAlive == "5m"

\* url.Values.Set
SetParam(params, k, v) ==
    [x \in (DOMAIN params) \cup {k} |-> IF x = k THEN v ELSE params[x]]

\* url.Values.Encode: key=value pairs sorted by key
SortedKeys == <<"pretty", "scroll", "search_type", "size">>
RECURSIVE EncodeFrom(_, _)
EncodeFrom(params, i) ==
    IF i > Len(SortedKeys) THEN <<>>
    ELSE (IF SortedKeys[i] \in DOMAIN params
            THEN << <<SortedKeys[i], params[SortedKeys[i]]>> >>
            ELSE <<>>) \o EncodeFrom(params, i + 1)
Encode(params) == EncodeFrom(params, 1)

EmptyValues == [x \in {} |-> ""]

(* ------------------------- request construction ----------------------- *)
Clean(names) == [i \in 1..Len(names) |-> cleanPathString(names[i])]

Str_search == <<"/", "_", "s", "e", "a", "r", "c", "h">>
Str_scroll == <<"/", "_", "s", "e", "a", "r", "c", "h", "/", "s", "c", "r", "o", "l", "l">>

\* GetFirstPage, "Build url" up to "Search"
FirstPagePath ==
    LET urls0 == <<"/">>
        indexPart == Clean(indices)
        urls1 == IF Len(indexPart) > 0 THEN urls0 \o Join(indexPart) ELSE urls0
        typesPart == Clean(types)
        urls2 == IF Len(typesPart) > 0 THEN urls1 \o <<"/">> \o Join(typesPart) ELSE urls1
    IN  urls2 \o Str_search

\* variant: a size of zero is sent too
FirstPageParams_sizeZero ==
    LET p0 == SetParam(EmptyValues, "search_type", "scan")
        p1 == IF pretty THEN SetParam(p0, "pretty", FmtV(pretty)) ELSE p0
        p2 == IF keepAlive # "" THEN SetParam(p1, "scroll", keepAlive)
                                ELSE SetParam(p1, "scroll", defaultKeepAlive)
        p3 == IF size # Nil /\ size[1] >= 0 THEN SetParam(p2, "size", FmtD(size[1])) ELSE p2
    IN  p3

\* GetFirstPage, "Parameters"
FirstPageParams ==
    LET p0 == SetParam(EmptyValues, "search_type", "scan")
        p1 == IF pretty THEN SetParam(p0, "pretty", FmtV(pretty)) ELSE p0
        p2 == IF keepAlive # "" THEN SetParam(p1, "scroll", keepAlive)
                                ELSE SetParam(p1, "scroll", defaultKeepAlive)
        p3 == IF size # Nil /\ size[1] > 0 THEN SetParam(p2, "size", FmtD(size[1])) ELSE p2
    IN  p3

\* GetNextPage, "Parameters"
NextPageParams ==
    LET p0 == EmptyValues
        p1 == IF pretty THEN SetParam(p0, "pretty", FmtV(pretty)) ELSE p0
        p2 == IF keepAlive # "" THEN SetParam(p1, "scroll", keepAlive)
                                ELSE SetParam(p1, "scroll", defaultKeepAlive)
    IN  p2

\* the url handed to NewRequest: path, then "?" and the encoded parameters
FirstPageUrl ==
    LET params == FirstPageParams
    IN  [method |-> "POST", path |-> FirstPagePath,
         rawQuery |-> IF Cardinality(DOMAIN params) > 0 THEN Ptr(Encode(params)) ELSE Nil]

NextPageUrl ==
    [method |-> "POST", path |-> Str_scroll, rawQuery |-> Ptr(Encode(NextPageParams))]

\* query.Source()
Source(q) == <<"source", q>>

\* GetFirstPage, "Set body": a JSON object, with the query when there is one
FirstPageBody ==
    [kind |-> "json", value |-> IF query # "nil" THEN Ptr(Source(query)) ELSE Nil]

\* GetNextPage, "Set body": the scroll id as a plain string
NextPageBody == [kind |-> "string", value |-> scrollId]

Request(url, body) == [url |-> url, body |-> body]

(* ------------------------------ results ------------------------------- *)
Result(b, s, d, r, e) == [built |-> b, sent |-> s, decoded |-> d, res |-> r, err |-> e]

\* variant: the total-hits counter is not consulted
IsLastPage_noTotal(searchResult) ==
    \/ searchResult = Nil
    \/ searchResult[1].Hits = Nil
    \/ Len(searchResult[1].Hits[1].Hits) = 0

\* variant: a page holding a single hit counts as the last page
IsLastPage_offByOne(searchResult) ==
    \/ searchResult = Nil
    \/ searchResult[1].Hits = Nil
    \/ Len(searchResult[1].Hits[1].Hits) <= 1
    \/ searchResult[1].Hits[1].TotalHits = 0

\* GetNextPage, "Determine last page"
IsLastPage(searchResult) ==
    \/ searchResult = Nil
    \/ searchResult[1].Hits = Nil
    \/ Len(searchResult[1].Hits[1].Hits) = 0
    \/ searchResult[1].Hits[1].TotalHits = 0

\* variant: the decode error is returned together with the envelope
GetFirstPageResult_bothOnDecode(o) ==
    LET url == FirstPageUrl
        req == Request(url, FirstPageBody)
    IN  IF o.fail = "NewRequest" THEN Result(<<url>>, <<>>, Nil, Nil, "NewRequestErr")
        ELSE IF o.fail = "Transport" THEN Result(<<url>>, <<req>>, Nil, Nil, "TransportErr")
        ELSE IF o.fail = "Status" THEN Result(<<url>>, <<req>>, Nil, Nil, "ResponseErr")
        ELSE IF o.fail = "Decode"
               THEN Result(<<url>>, <<req>>, Nil, Ptr([ScrollId |-> "", Hits |-> Nil]), "DecodeErr")
        ELSE Result(<<url>>, <<req>>, Ptr(o.env), Ptr(o.env), "nil")

\* variant: the first page applies the last-page check of the next page
GetFirstPageResult_lastPageCheck(o) ==
    LET url == FirstPageUrl
        req == Request(url, FirstPageBody)
    IN  IF o.fail = "NewRequest" THEN Result(<<url>>, <<>>, Nil, Nil, "NewRequestErr")
        ELSE IF o.fail = "Transport" THEN Result(<<url>>, <<req>>, Nil, Nil, "TransportErr")
        ELSE IF o.fail = "Status" THEN Result(<<url>>, <<req>>, Nil, Nil, "ResponseErr")
        ELSE IF o.fail = "Decode" THEN Result(<<url>>, <<req>>, Nil, Nil, "DecodeErr")
        ELSE IF IsLastPage(Ptr(o.env)) THEN Result(<<url>>, <<req>>, Ptr(o.env), Nil, "EOS")
        ELSE Result(<<url>>, <<req>>, Ptr(o.env), Ptr(o.env), "nil")

\* the outcome of GetFirstPage for one outcome of the exchange: the url is
\* handed to NewRequest, the request to the transport, the response to
\* checkResponse and its body to the decoder; the first failure is returned
GetFirstPageResult(o) ==
    LET url == FirstPageUrl
        req == Request(url, FirstPageBody)
    IN  IF o.fail = "NewRequest" THEN Result(<<url>>, <<>>, Nil, Nil, "NewRequestErr")
        ELSE IF o.fail = "Transport" THEN Result(<<url>>, <<req>>, Nil, Nil, "TransportErr")
        ELSE IF o.fail = "Status" THEN Result(<<url>>, <<req>>, Nil, Nil, "ResponseErr")
        ELSE IF o.fail = "Decode" THEN Result(<<url>>, <<req>>, Nil, Nil, "DecodeErr")
        ELSE Result(<<url>>, <<req>>, Ptr(o.env), Ptr(o.env), "nil")

\* GetNextPage once a scroll id is held: "Build url" to the final return
NextPageExchange(o) ==
    LET url == NextPageUrl
        req == Request(url, NextPageBody)
    IN  IF o.fail = "NewRequest" THEN Result(<<url>>, <<>>, Nil, Nil, "NewRequestErr")
        ELSE IF o.fail = "Transport" THEN Result(<<url>>, <<req>>, Nil, Nil, "TransportErr")
        ELSE IF o.fail = "Status" THEN Result(<<url>>, <<req>>, Nil, Nil, "ResponseErr")
        ELSE IF o.fail = "Decode" THEN Result(<<url>>, <<req>>, Nil, Nil, "DecodeErr")
        ELSE IF IsLastPage(Ptr(o.env)) THEN Result(<<url>>, <<req>>, Ptr(o.env), Nil, "EOS")
        ELSE Result(<<url>>, <<req>>, Ptr(o.env), Ptr(o.env), "nil")

\* variant: the scroll id is not checked before the request is made
GetNextPageResult_noGuard(o) == NextPageExchange(o)

\* the outcome of GetNextPage for one outcome of the exchange
GetNextPageResult(o) ==
    IF scrollId = "" THEN Result(<<>>, <<>>, Nil, Nil, "ErrNoScrollId")
    ELSE NextPageExchange(o)

\* variant: Do always continues the scroll
DoResult_alwaysNext(o) == GetNextPageResult(o)

\* Do: first page while no scroll id is held, next page otherwise
DoResult(o) ==
    IF scrollId = "" THEN GetFirstPageResult(o) ELSE GetNextPageResult(o)

Returns(name, r) ==
    /\ op' = name
    /\ built' = r.built
    /\ sent' = r.sent
    /\ decoded' = r.decoded
    /\ res' = r.res
    /\ err' = r.err

\* a setter returns the service itself
ReturnsSelf(name) == Returns(name, Result(<<>>, <<>>, Nil, Nil, "nil"))

(* ------------------------------ actions ------------------------------- *)
Init ==
    /\ indices = <<>>
    /\ types = <<>>
    /\ keepAlive = ""
    /\ query = "match_all"
    /\ size = Nil
    /\ pretty = FALSE
    /\ scrollId = ""
    /\ op = "NewScrollService"
    /\ built = <<>>
    /\ sent = <<>>
    /\ decoded = Nil
    /\ res = Nil
    /\ err = "nil"
    /\ idArg = Nil
    /\ firstPageOk = FALSE

SeqsUpTo(S, n) == UNION { [1..k -> S] : k \in 0..n }

Index ==
    \E index \in IndexNames :
        /\ Len(indices) < MaxIndices
        /\ indices' = Append(indices, index)
        /\ ReturnsSelf("Index")
        /\ UNCHANGED <<types, keepAlive, query, size, pretty, scrollId, hist>>

Indices ==
    \E more \in SeqsUpTo(IndexNames, MaxIndices) :
        /\ Len(indices) + Len(more) <= MaxIndices
        /\ indices' = indices \o more
        /\ ReturnsSelf("Indices")
        /\ UNCHANGED <<types, keepAlive, query, size, pretty, scrollId, hist>>

Type ==
    \E typ \in TypeNames :
        /\ Len(types) < MaxTypes
        /\ types' = Append(types, typ)
        /\ ReturnsSelf("Type")
        /\ UNCHANGED <<indices, keepAlive, query, size, pretty, scrollId, hist>>

Types ==
    \E more \in SeqsUpTo(TypeNames, MaxTypes) :
        /\ Len(types) + Len(more) <= MaxTypes
        /\ types' = types \o more
        /\ ReturnsSelf("Types")
        /\ UNCHANGED <<indices, keepAlive, query, size, pretty, scrollId, hist>>

Scroll ==
    \E k \in KeepAlives :
        /\ keepAlive' = k
        /\ ReturnsSelf("Scroll")
        /\ UNCHANGED <<indices, types, query, size, pretty, scrollId, hist>>

KeepAlive ==
    \E k \in KeepAlives :
        /\ keepAlive' = k
        /\ ReturnsSelf("KeepAlive")
        /\ UNCHANGED <<indices, types, query, size, pretty, scrollId, hist>>

Query ==
    \E q \in Queries :
        /\ query' = q
        /\ ReturnsSelf("Query")
        /\ UNCHANGED <<indices, types, keepAlive, size, pretty, scrollId, hist>>

Pretty ==
    \E b \in BOOLEAN :
        /\ pretty' = b
        /\ ReturnsSelf("Pretty")
        /\ UNCHANGED <<indices, types, keepAlive, query, size, scrollId, hist>>

Size ==
    \E n \in SizeArgs :
        /\ size' = Ptr(n)
        /\ ReturnsSelf("Size")
        /\ UNCHANGED <<indices, types, keepAlive, query, pretty, scrollId, hist>>

ScrollId ==
    \E id \in ScrollIds :
        /\ scrollId' = id
        /\ idArg' = Ptr(id)
        /\ ReturnsSelf("ScrollId")
        /\ UNCHANGED <<indices, types, keepAlive, query, size, pretty, firstPageOk>>

\* variant: the first page stores the returned scroll id in the service
GetFirstPage_storesId ==
    \E o \in Outcomes :
        LET r == GetFirstPageResult(o) IN
        /\ Returns("GetFirstPage", r)
        /\ firstPageOk' = (firstPageOk \/ r.err = "nil")
        /\ scrollId' = IF r.res # Nil THEN r.res[1].ScrollId ELSE scrollId
        /\ UNCHANGED <<indices, types, keepAlive, query, size, pretty, idArg>>

GetFirstPage ==
    \E o \in Outcomes :
        LET r == GetFirstPageResult(o) IN
        /\ Returns("GetFirstPage", r)
        /\ firstPageOk' = (firstPageOk \/ r.err = "nil")
        /\ UNCHANGED <<fields, idArg>>

GetNextPage ==
    \E o \in Outcomes :
        /\ Returns("GetNextPage", GetNextPageResult(o))
        /\ UNCHANGED <<fields, hist>>

\* variant: Do stores the returned scroll id in the service
Do_storesId ==
    \E o \in Outcomes :
        LET r == DoResult(o) IN
        /\ Returns("Do", r)
        /\ firstPageOk' = (firstPageOk \/ (scrollId = "" /\ r.err = "nil"))
        /\ scrollId' = IF r.res # Nil THEN r.res[1].ScrollId ELSE scrollId
        /\ UNCHANGED <<indices, types, keepAlive, query, size, pretty, idArg>>

Do ==
    \E o \in Outcomes :
        LET r == DoResult(o) IN
        /\ Returns("Do", r)
        /\ firstPageOk' = (firstPageOk \/ (scrollId = "" /\ r.err = "nil"))
        /\ UNCHANGED <<fields, idArg>>

Next ==
    \/ Index \/ Indices \/ Type \/ Types
    \/ Scroll \/ KeepAlive \/ Query \/ Pretty \/ Size \/ ScrollId
    \/ GetFirstPage \/ GetNextPage \/ Do

Spec == Init /\ [][Next]_vars

FetchOps == { "GetFirstPage", "GetNextPage", "Do" }

TypeOK ==
    /\ scrollId \in ScrollIds
    /\ err \in {"nil", "EOS", "ErrNoScrollId", "NewRequestErr", "TransportErr",
                "ResponseErr", "DecodeErr"}
    /\ Len(built) <= 1

(* ---------------------- vocabulary of the properties ------------------ *)
\* the value of parameter k in an encoded query: <<v>>, or <<>> when absent
RECURSIVE Lookup(_, _)
Lookup(pairs, k) ==
    IF pairs = <<>> THEN <<>>
    ELSE IF Head(pairs)[1] = k THEN <<Head(pairs)[2]>>
    ELSE Lookup(Tail(pairs), k)
Param(url, k) == IF url.rawQuery = Nil THEN <<>> ELSE Lookup(url.rawQuery[1], k)

EndsWith(s, t) == Len(s) >= Len(t) /\ SubSeq(s, Len(s) - Len(t) + 1, Len(s)) = t

\* POST .../_search with search_type=scan
IsFirstPageUrl(url) ==
    /\ url.method = "POST"
    /\ EndsWith(url.path, <<"/", "_", "s", "e", "a", "r", "c", "h">>)
    /\ Param(url, "search_type") = <<"scan">>

\* POST /_search/scroll
IsScrollUrl(url) ==
    /\ url.method = "POST"
    /\ url.path = <<"/", "_", "s", "e", "a", "r", "c", "h", "/", "s", "c", "r", "o", "l", "l">>

\* the envelope has no hits container, no hits or a total of zero
Exhausted(env) ==
    \/ env.Hits = Nil
    \/ env.Hits[1].Hits = <<>>
    \/ env.Hits[1].TotalHits = 0

HasHits(env) == env.Hits # Nil /\ Len(env.Hits[1].Hits) >= 1

\* the scroll parameter the configuration asks for
WantedScroll == IF keepAlive = "" THEN defaultKeepAlive ELSE keepAlive

(* ------------------------------- claims ------------------------------- *)
\* C1: once transport, status check and decode have succeeded, GetNextPage
\* returns (nil, EOS) when the envelope has no hits container, no hits or a
\* total of zero; EOS is returned in no other case and never with an envelope.
C1_EosRule ==
    /\ (op = "GetNextPage" /\ decoded # Nil /\ Exhausted(decoded[1]))
          => (res = Nil /\ err = "EOS")
    /\ (op = "GetNextPage" /\ err = "EOS")
          => (decoded # Nil /\ Exhausted(decoded[1]))
    /\ (err = "EOS") => (res = Nil)

C1_Witness ==
    /\ op = "GetNextPage" /\ err = "EOS" /\ res = Nil
    /\ decoded # Nil /\ HasHits(decoded[1]) /\ decoded[1].Hits[1].TotalHits = 0

\* C2 (as stated): a decoded envelope with one or more hits is returned by
\* GetNextPage unchanged with a nil error, whatever its total-hits counter.
C2_AnyTotal ==
    (op = "GetNextPage" /\ decoded # Nil /\ HasHits(decoded[1]))
        => (res = decoded /\ err = "nil")

\* C2 (amended): a decoded envelope with one or more hits and a total-hits
\* counter other than zero is returned by GetNextPage unchanged with a nil
\* error.
C2_NonZeroTotal ==
    (op = "GetNextPage" /\ decoded # Nil /\ HasHits(decoded[1])
        /\ decoded[1].Hits[1].TotalHits # 0)
        => (res = decoded /\ err = "nil")

C2_Witness ==
    /\ op = "GetNextPage" /\ decoded # Nil /\ HasHits(decoded[1])
    /\ decoded[1].Hits[1].TotalHits # 0 /\ res = decoded /\ err = "nil"

\* C3: GetNextPage with an empty scroll id returns ErrNoScrollId and no
\* result, and neither builds a request nor sends one.
C3_NoScrollId ==
    (op = "GetNextPage" /\ scrollId = "")
        => (err = "ErrNoScrollId" /\ res = Nil /\ built = <<>> /\ sent = <<>>)

C3_Witness == op = "GetNextPage" /\ scrollId = "" /\ err = "ErrNoScrollId"

\* C4 (as stated): the scroll id is empty exactly when no first-page fetch
\* has succeeded on the service.
C4_EmptyIffNoFirstPage == (scrollId = "") <=> ~firstPageOk

\* C4 (amended): the scroll id is empty at construction and is afterwards the
\* value of the latest ScrollId call, whether or not a first-page fetch has
\* succeeded.
C4_IdIsLatestArg == scrollId = (IF idArg = Nil THEN "" ELSE idArg[1])

C4_Witness == op = "GetFirstPage" /\ err = "nil" /\ firstPageOk /\ scrollId = ""

\* C5: Do issues the first-page request while the scroll id is empty and the
\* continuation request with the scroll id as body otherwise; it never
\* returns ErrNoScrollId, and its result is that of the operation chosen.
C5_DoDispatch ==
    (op = "Do") =>
        /\ Len(built) = 1
        /\ (scrollId = "") => IsFirstPageUrl(built[1])
        /\ (scrollId # "") => IsScrollUrl(built[1])
        /\ (scrollId # "" /\ sent # <<>>)
              => sent[1].body = [kind |-> "string", value |-> scrollId]
        /\ err # "ErrNoScrollId"
        /\ (scrollId = "" /\ decoded # Nil) => (res = decoded /\ err = "nil")
        /\ (scrollId # "" /\ decoded # Nil /\ Exhausted(decoded[1]))
              => (res = Nil /\ err = "EOS")
        /\ (scrollId # "" /\ decoded # Nil /\ ~Exhausted(decoded[1]))
              => (res = decoded /\ err = "nil")

C5_Witness == op = "Do" /\ scrollId # "" /\ sent # <<>> /\ err = "EOS"

\* C6: the first-page path is /{indices}/{types}/_search with an empty segment
\* left out together with its separator, so no separator is doubled.
Segment(names) == IF names = <<>> THEN <<>> ELSE Join(Clean(names)) \o <<"/">>
NoDoubledSeparator(path) ==
    \A i \in 1..(Len(path) - 1) : ~(path[i] = "/" /\ path[i + 1] = "/")
C6_PathShape ==
    (op = "GetFirstPage") =>
        /\ built[1].path = <<"/">> \o Segment(indices) \o Segment(types)
                              \o <<"_", "s", "e", "a", "r", "c", "h">>
        /\ NoDoubledSeparator(built[1].path)

\* C7: every fetch ends with an envelope and a nil error, or with no envelope
\* and an error (EOS included), and hands at most one request to the
\* transport.
C7_OneOutcome ==
    (op \in FetchOps) =>
        /\ (res # Nil /\ err = "nil") \/ (res = Nil /\ err # "nil")
        /\ Len(sent) <= 1
        /\ (err \in {"ErrNoScrollId", "NewRequestErr"}) => (sent = <<>>)
        /\ (res # Nil) => (res = decoded)

C7_Witness == op = "GetFirstPage" /\ err = "DecodeErr" /\ res = Nil /\ Len(sent) = 1

\* C8: the first-page request carries search_type=scan, scroll (keepAlive, or
\* the default when keepAlive is empty) and size exactly when a positive Size
\* was set; the continuation request carries the same scroll and never size
\* or search_type.
C8_Params ==
    /\ (op = "GetFirstPage") =>
          /\ Param(built[1], "search_type") = <<"scan">>
          /\ Param(built[1], "scroll") = <<WantedScroll>>
          /\ (size # Nil /\ size[1] > 0) => Param(built[1], "size") = <<ToString(size[1])>>
          /\ (size = Nil \/ size[1] <= 0) => Param(built[1], "size") = <<>>
    /\ (op = "GetNextPage" /\ built # <<>>) =>
          /\ Param(built[1], "scroll") = <<WantedScroll>>
          /\ Param(built[1], "size") = <<>>
          /\ Param(built[1], "search_type") = <<>>

C8_Witness ==
    /\ op = "GetFirstPage" /\ size # Nil /\ size[1] > 0 /\ keepAlive # ""
    /\ Param(built[1], "size") # <<>>

\* C9: a fetch leaves every field of the service as it was, the scroll id
\* changes in a ScrollId call only, and as long as ScrollId was never called
\* every Do issues the first-page request.
C9_Frame ==
    /\ [][(op' \in FetchOps) => UNCHANGED fields]_vars
    /\ [][(scrollId' # scrollId) => (op' = "ScrollId")]_vars
    /\ []((op = "Do" /\ idArg = Nil) => (Len(built) = 1 /\ IsFirstPageUrl(built[1])))

C9_Witness ==
    /\ op = "Do" /\ idArg = Nil /\ firstPageOk /\ scrollId = ""
    /\ res # Nil /\ res[1].ScrollId # ""

\* C10: GetFirstPage never returns EOS: when the exchange succeeds it returns
\* the decoded envelope, exhausted or not; EOS comes from GetNextPage, or from
\* Do while a scroll id is held.
C10_FirstPageNoEos ==
    /\ (op = "GetFirstPage") =>
          /\ err # "EOS"
          /\ (decoded # Nil) => (res = decoded /\ err = "nil")
    /\ (err = "EOS") => (op = "GetNextPage" \/ (op = "Do" /\ scrollId # ""))

C10_Witness ==
    /\ op = "GetFirstPage" /\ decoded # Nil /\ Exhausted(decoded[1])
    /\ decoded[1].ScrollId = "" /\ res = decoded /\ err = "nil"

====
